---- MODULE Spec2Model ----
(***************************************************************************)
(* Model of StringHasher (src/src/index.ts): the validating constructor,   *)
(* generate() and validate(), with the crypto primitives they call         *)
(* (randomBytes, pbkdf2Sync, Buffer hex conversion, timingSafeEqual)       *)
(* modelled by what they do.                                               *)
(*                                                                         *)
(* A JavaScript string is a sequence of one-character strings; a Buffer is *)
(* a sequence of bytes (0..255).                                           *)
(***************************************************************************)
EXTENDS Integers, Sequences, FiniteSets, TLC

VARIABLES
  pc,          \* "new" (fields initialised, constructor body not run), "ready", "failed"
  options,     \* the argument the constructor was called with
  ctorError,   \* message of the StringHashError the constructor threw, or NoError
  signature, algorythm, saltLength, hashLength, buffLength, iterations,
  last,        \* what the latest generate()/validate() call did
  issued       \* the strings generate() has returned, with their value and salt

vars == <<pc, options, ctorError, signature, algorythm, saltLength, hashLength,
          buffLength, iterations, last, issued>>

fields == <<signature, algorythm, saltLength, hashLength, buffLength, iterations>>

\* ---------------------------------------------------------------- bounds

\* generate() is called at most this many times on one hasher.
MaxIssued == 2

\* ------------------------------------------------------------- strings

Fill(n, c) == [i \in 1..n |-> c]

Sha512Text == <<"s", "h", "a", "5", "1", "2">>
Hash512Text == <<"h", "a", "s", "h", "5", "1", "2">>

\* String.prototype.trim: strips white space at both ends.
RECURSIVE TrimStart(_)
TrimStart(s) == IF s # <<>> /\ Head(s) = " " THEN TrimStart(Tail(s)) ELSE s

RECURSIVE TrimEnd(_)
TrimEnd(s) ==
  IF s # <<>> /\ s[Len(s)] = " " THEN TrimEnd(SubSeq(s, 1, Len(s) - 1)) ELSE s

Trim(s) == TrimEnd(TrimStart(s))

Clamp(i, n) == IF i < 0 THEN 0 ELSE IF i > n THEN n ELSE i

\* String.prototype.substring(start, end): indices are clamped to [0, length]
\* and swapped when start > end; the result is s[start .. end-1] (0-based).
Substring(s, start, end) ==
  LET a == Clamp(start, Len(s))
      b == Clamp(end, Len(s))
      lo == IF a <= b THEN a ELSE b
      hi == IF a <= b THEN b ELSE a
  IN SubSeq(s, lo + 1, hi)

\* String.prototype.substring(start): to the end of the string.
SubstringFrom(s, start) == Substring(s, start, Len(s))

\* ------------------------------------------------------------------ hex

HexDigits ==
  <<"0", "1", "2", "3", "4", "5", "6", "7", "8", "9", "a", "b", "c", "d", "e", "f">>

\* The value of each character the hex decoder accepts (either case).
HexValue ==
  [c \in {HexDigits[i] : i \in 1..16} |-> (CHOOSE i \in 1..16 : HexDigits[i] = c) - 1]
  @@ ("A" :> 10) @@ ("B" :> 11) @@ ("C" :> 12) @@ ("D" :> 13) @@ ("E" :> 14)
  @@ ("F" :> 15)

IsHexDigit(c) == c \in DOMAIN HexValue

\* Buffer.prototype.toString("hex"): two lower-case digits per byte.
ToHex(buf) ==
  [i \in 1..(2 * Len(buf)) |->
     IF i % 2 = 1 THEN HexDigits[(buf[(i + 1) \div 2] \div 16) + 1]
     ELSE HexDigits[(buf[i \div 2] % 16) + 1]]

\* The number of leading pairs of str, from pair k + 1 on, that are two hex digits.
RECURSIVE HexPairs(_, _)
HexPairs(str, k) ==
  IF 2 * k + 2 <= Len(str) /\ IsHexDigit(str[2 * k + 1]) /\ IsHexDigit(str[2 * k + 2])
  THEN HexPairs(str, k + 1)
  ELSE k

\* Buffer.from(str, "hex"): decodes pairs of digits and stops at the first pair
\* that is not two hex digits; a trailing single character is dropped.
FromHex(str) ==
  [i \in 1..HexPairs(str, 0) |->
     HexValue[str[2 * i - 1]] * 16 + HexValue[str[2 * i]]]

\* ---------------------------------------------------------- collaborators

NoError == "none"

\* What the runtime's own argument check or the collaborator itself reports.
OutOfRange == "ERR_OUT_OF_RANGE"
CollaboratorFailure == "collaborator failure"

\* crypto.randomBytes(size). The caller passes saltLength / 2, so the model takes
\* twice the size: the buffer allocated for a fractional size has its integer
\* part as length. `rng` is the source's behaviour in this call: whether it fails
\* and, if not, the bytes it yields (derived from a seed).
randomBytes(twiceSize, rng) ==
  IF rng.fails
  THEN [threw |-> TRUE, val |-> <<>>, cause |-> CollaboratorFailure]
  ELSE [threw |-> FALSE,
        val |-> [i \in 1..(twiceSize \div 2) |-> (rng.seed + 17 * i) % 256],
        cause |-> NoError]

\* The UTF-8 bytes of the characters the model's values are made of.
CharCode(c) == IF c = "a" THEN 97 ELSE IF c = "b" THEN 98 ELSE 63

RECURSIVE WeightTo(_, _)
WeightTo(bytes, n) ==
  IF n = 0 THEN 7 ELSE (WeightTo(bytes, n - 1) * 33 + bytes[n]) % 256

Weight(bytes) == WeightTo(bytes, Len(bytes))

DigestCode(digest) == IF digest = "sha512" THEN 2 ELSE IF digest = "sha256" THEN 1 ELSE 0

\* The key pbkdf2 derives: a deterministic function of all five arguments, different
\* for different passwords of the model under the same salt, count and digest.
DerivedKey(password, salt, iters, keylen, digest) ==
  LET base == Weight([i \in 1..Len(password) |-> CharCode(password[i])]) * 5
                + Weight(salt) * 3 + iters + DigestCode(digest) * 64
  IN [j \in 1..keylen |-> (base + 29 * j) % 256]

\* crypto.pbkdf2Sync(password, salt, iterations, keylen, digest). The caller passes
\* buffLength / 2, so the model takes twice the key length. A fractional keylen is
\* rejected with ERR_OUT_OF_RANGE by runtimes that validate it as an integer and
\* truncated by the ones that do not (kdf.legacy).
pbkdf2Sync(password, salt, iters, twiceKeylen, digest, kdf) ==
  IF kdf.fails
  THEN [threw |-> TRUE, val |-> <<>>, cause |-> CollaboratorFailure]
  ELSE IF twiceKeylen % 2 # 0 /\ ~kdf.legacy
  THEN [threw |-> TRUE, val |-> <<>>, cause |-> OutOfRange]
  ELSE [threw |-> FALSE,
        val |-> DerivedKey(password, salt, iters, twiceKeylen \div 2, digest),
        cause |-> NoError]

TimingSafeEqualLength == "Input buffers must have the same byte length"

\* crypto.timingSafeEqual(a, b): a RangeError when the byte lengths differ.
timingSafeEqual(a, b) ==
  IF Len(a) # Len(b)
  THEN [threw |-> TRUE, val |-> FALSE, cause |-> TimingSafeEqualLength]
  ELSE [threw |-> FALSE, val |-> (a = b), cause |-> NoError]

\* ------------------------------------------------------------ constructor

DefaultSaltLength == 32
DefaultHashLength == 128
DefaultBuffLength == 90
DefaultIterations == 100000
MinIterations == 1000

SaltLengthInvalid == "Salt length cannot be less than or equals zero."
HashLengthInvalid == "Hash length cannot be less than or equals zero."
IterationsTooLow == "Iterations count cannot be less than 1000."
SaltExceedsHalfOfHash == "Salt length cannot be less than half of hash length."
SaltPlusSignatureExceedsTwoThirds ==
  "Salt length combined with signature length cannot be more than 2/3 of hash length."

\* The field initialisers of the class.
FieldDefaults ==
  [signature |-> Sha512Text, algorythm |-> "sha512", saltLength |-> DefaultSaltLength,
   hashLength |-> DefaultHashLength, buffLength |-> DefaultBuffLength,
   iterations |-> DefaultIterations]

\* An option is [present, val]; an absent one reads as undefined.
Absent(dummy) == [present |-> FALSE, val |-> dummy]
Given(v) == [present |-> TRUE, val |-> v]

\* `if (options.x)`: undefined, the empty string and 0 are falsy.
TruthyString(o) == o.present /\ o.val # <<>>
TruthyName(o) == o.present /\ o.val # ""
TruthyNumber(o) == o.present /\ o.val # 0

\* The fields after the "Change field values if options present" block.
ApplyOptions(this, o) ==
  [this EXCEPT
     !.signature = IF TruthyString(o.signature) THEN Trim(o.signature.val) ELSE @,
     !.algorythm = IF TruthyName(o.algorythm) THEN o.algorythm.val ELSE @,
     !.saltLength = IF TruthyNumber(o.saltLength) THEN o.saltLength.val ELSE @,
     !.hashLength = IF TruthyNumber(o.hashLength) THEN o.hashLength.val ELSE @,
     !.iterations = IF TruthyNumber(o.iterations) THEN o.iterations.val ELSE @]

FirstViolationNoTwoThirds(this) ==
  IF this.saltLength <= 0 THEN SaltLengthInvalid
  ELSE IF this.hashLength <= 0 THEN HashLengthInvalid
  ELSE IF this.iterations < MinIterations THEN IterationsTooLow
  ELSE IF this.hashLength < 2 * this.saltLength THEN SaltExceedsHalfOfHash
  ELSE NoError

\* The "Validating values" block: the message of the first check that throws.
\* hashLength / 2 < saltLength and (hashLength / 3) * 2 < saltLength + length are
\* comparisons of a quotient with an integer, stated here without the division.
FirstViolation(this) ==
  IF this.saltLength <= 0 THEN SaltLengthInvalid
  ELSE IF this.hashLength <= 0 THEN HashLengthInvalid
  ELSE IF this.iterations < MinIterations THEN IterationsTooLow
  ELSE IF this.hashLength < 2 * this.saltLength THEN SaltExceedsHalfOfHash
  ELSE IF 2 * this.hashLength < 3 * (this.saltLength + Len(this.signature))
  THEN SaltPlusSignatureExceedsTwoThirds
  ELSE NoError

\* "Calculating raw hash buffer length."
RawBuffLength(this) == this.hashLength - this.saltLength - Len(this.signature)

\* new StringHasher(options): the fields it leaves and the message it throws.
Constructor(o) ==
  IF ~o.given THEN [this |-> FieldDefaults, message |-> NoError]
  ELSE LET applied == ApplyOptions(FieldDefaults, o)
           message == FirstViolation(applied)
       IN IF message # NoError THEN [this |-> applied, message |-> message]
          ELSE [this |-> [applied EXCEPT !.buffLength = RawBuffLength(applied)],
                message |-> NoError]

\* ------------------------------------------------------ generate / validate

SaltError == "Unable to generate salt."
HashError == "Unable to generate hash."

NotCalled == "not called"
Returned == "returned"
Threw == "threw"

\* What one call did: how it ended (a returned string or boolean, or a thrown
\* error with its class, message and inner error) and what it asked of the
\* random source and of the key derivation function.
Outcome(threw, errorType, message, inner, retStr, retBool, rng, kdf, salt) ==
  [threw |-> threw, errorType |-> errorType, message |-> message, inner |-> inner,
   retStr |-> retStr, retBool |-> retBool, rng |-> rng, kdf |-> kdf, salt |-> salt]

generateSaltNoCause(this, rng) ==
  LET r == randomBytes(this.saltLength, rng)
  IN IF r.threw
     THEN [threw |-> TRUE, val |-> <<>>, message |-> SaltError, inner |-> NoError]
     ELSE [threw |-> FALSE, val |-> r.val, message |-> NoError, inner |-> NoError]

generateSalt(this, rng) ==
  LET r == randomBytes(this.saltLength, rng)
  IN IF r.threw
     THEN [threw |-> TRUE, val |-> <<>>, message |-> SaltError, inner |-> r.cause]
     ELSE [threw |-> FALSE, val |-> r.val, message |-> NoError, inner |-> NoError]

generateHashNoValue(this, value, salt, kdf) ==
  LET r == pbkdf2Sync(<<>>, salt, this.iterations, this.buffLength, this.algorythm, kdf)
  IN IF r.threw
     THEN [threw |-> TRUE, val |-> <<>>, message |-> HashError, inner |-> r.cause]
     ELSE [threw |-> FALSE, val |-> r.val, message |-> NoError, inner |-> NoError]

generateHash(this, value, salt, kdf) ==
  LET r == pbkdf2Sync(value, salt, this.iterations, this.buffLength, this.algorythm, kdf)
  IN IF r.threw
     THEN [threw |-> TRUE, val |-> <<>>, message |-> HashError, inner |-> r.cause]
     ELSE [threw |-> FALSE, val |-> r.val, message |-> NoError, inner |-> NoError]

generate(this, value, rng, kdf) ==
  LET salt == generateSalt(this, rng)
      hash == generateHash(this, value, salt.val, kdf)
  IN IF salt.threw
     THEN Outcome(TRUE, "StringHashError", salt.message, salt.inner, <<>>, FALSE,
                  Threw, NotCalled, <<>>)
     ELSE IF hash.threw
     THEN Outcome(TRUE, "StringHashError", hash.message, hash.inner, <<>>, FALSE,
                  Returned, Threw, salt.val)
     ELSE Outcome(FALSE, NoError, NoError, NoError,
                  this.signature \o ToHex(hash.val \o salt.val), FALSE,
                  Returned, Returned, salt.val)

FastRejectNoSignature(this, value, hash) ==
  Len(value) = 0 \/ Len(hash) # this.hashLength

\* The two early returns of validate().
FastReject(this, value, hash) ==
  \/ Len(value) = 0 \/ Len(hash) # this.hashLength
  \/ this.signature # Substring(hash, 0, Len(this.signature))

validate(this, value, hash, kdf) ==
  IF FastReject(this, value, hash)
  THEN Outcome(FALSE, NoError, NoError, NoError, <<>>, FALSE, NotCalled, NotCalled, <<>>)
  ELSE
    LET hashStr == Substring(hash, Len(this.signature), this.hashLength - this.saltLength)
        saltStr == SubstringFrom(hash, Len(this.signature) + this.buffLength)
        saltBuff == FromHex(saltStr)
        hashBuff == FromHex(hashStr)
        testBuff == generateHash(this, value, saltBuff, kdf)
        equal == timingSafeEqual(hashBuff, testBuff.val)
    IN IF testBuff.threw
       THEN Outcome(TRUE, "StringHashError", testBuff.message, testBuff.inner, <<>>,
                    FALSE, NotCalled, Threw, saltBuff)
       ELSE IF equal.threw
       THEN Outcome(TRUE, "RangeError", equal.cause, NoError, <<>>, FALSE,
                    NotCalled, Returned, saltBuff)
       ELSE Outcome(FALSE, NoError, NoError, NoError, <<>>, equal.val,
                    NotCalled, Returned, saltBuff)

\* ------------------------------------------------------------------ inputs

SignatureOptions ==
  {Absent(<<>>), Given(<<>>), Given(<<" ">>), Given(<<" ", "a", "b", " ">>),
   Given(<<"s">>), Given(Hash512Text), Given(Fill(50, "x"))}

AlgorythmOptions == {Absent(""), Given("sha256")}

SaltLengthOptions == {Absent(0)} \cup {Given(n) : n \in {-2, 0, 1, 2, 3, 4, 32, 40, 65}}

HashLengthOptions == {Absent(0)} \cup {Given(n) : n \in {-2, 0, 6, 7, 8, 9, 12, 128}}

IterationsOptions == {Absent(0)} \cup {Given(n) : n \in {0, 999, 1000}}

\* new StringHasher() and new StringHasher(undefined).
NoOptions ==
  [given |-> FALSE, signature |-> Absent(<<>>), algorythm |-> Absent(""),
   saltLength |-> Absent(0), hashLength |-> Absent(0), iterations |-> Absent(0)]

\* Every combination of the option values above: the constructor's inputs.
AllOptionInputs ==
  {NoOptions} \cup
  [given : {TRUE}, signature : SignatureOptions, algorythm : AlgorythmOptions,
   saltLength : SaltLengthOptions, hashLength : HashLengthOptions,
   iterations : IterationsOptions]

Options(sig, alg, salt, hash, iters) ==
  [given |-> TRUE, signature |-> sig, algorythm |-> alg, saltLength |-> salt,
   hashLength |-> hash, iterations |-> iters]

\* The hashers generate() and validate() are exercised on: the default one, the
\* documented one (signature "hash512", 89 derived characters), short ones with
\* even and with odd derived and salt lengths, with and without a signature, and
\* option sets the constructor rejects.
OptionInputs ==
  {NoOptions,
   Options(Given(Hash512Text), Given("sha512"), Given(32), Given(128), Given(100000)),
   Options(Given(<<" ", "a", "b", " ">>), Given("sha256"), Given(2), Given(8), Given(1000)),
   Options(Given(<<" ">>), Absent(""), Given(4), Given(12), Absent(0)),
   Options(Given(<<" ">>), Absent(""), Given(3), Given(9), Absent(0)),
   Options(Absent(<<>>), Absent(""), Given(-2), Absent(0), Absent(0)),
   Options(Absent(<<>>), Absent(""), Absent(0), Absent(0), Given(999)),
   Options(Given(Fill(50, "x")), Absent(""), Given(40), Given(128), Absent(0))}

Values == {<<>>, <<"a">>, <<"b">>}

Seeds == {3, 200}

Rngs == {[fails |-> TRUE, seed |-> 0]} \cup [fails : {FALSE}, seed : Seeds]

\* How the key derivation behaves in a call: it fails, or it works on a runtime
\* that validates keylen or (told apart only by a fractional keylen) on one that
\* truncates it.
Kdfs(this) ==
  {[fails |-> TRUE, legacy |-> FALSE], [fails |-> FALSE, legacy |-> FALSE]}
  \cup (IF this.buffLength % 2 # 0 THEN {[fails |-> FALSE, legacy |-> TRUE]} ELSE {})

SetChar(s, i, c) == [s EXCEPT ![i] = c]

OtherDigit(c) == IF c = "0" THEN "1" ELSE "0"

\* Strings derived from a returned hash h by damaging it: a character that is no
\* hex digit in the derived segment or in the salt segment, another digit in the
\* derived segment, one character less or more, another first character.
Tampered(this, h) ==
  LET n == Len(this.signature)
  IN {SubSeq(h, 1, Len(h) - 1), h \o <<"0">>}
     \cup (IF Len(h) > n
           THEN {SetChar(h, n + 1, "z"), SetChar(h, Len(h), "z"),
                 SetChar(h, n + 1, OtherDigit(h[n + 1]))}
           ELSE {})
     \cup (IF n > 0 THEN {SetChar(h, 1, "#")} ELSE {})

\* The hash arguments validate() is called with: the returned hashes, damaged
\* ones, and strings of the configured length made up without generate().
HashInputs(this) ==
  LET made == this.signature \o Fill(this.hashLength - Len(this.signature), "0")
  IN {made, SetChar(made, Len(this.signature) + 1, "z"), <<>>}
     \cup {i.hash : i \in issued}
     \cup UNION {Tampered(this, i.hash) : i \in issued}

\* ----------------------------------------------------------------- actions

This ==
  [signature |-> signature, algorythm |-> algorythm, saltLength |-> saltLength,
   hashLength |-> hashLength, buffLength |-> buffLength, iterations |-> iterations]

NoCall ==
  [op |-> "none", value |-> <<>>, hash |-> <<>>,
   out |-> Outcome(FALSE, NoError, NoError, NoError, <<>>, FALSE, NotCalled, NotCalled, <<>>)]

Init ==
  /\ pc = "new"
  /\ options = NoOptions
  /\ ctorError = NoError
  /\ signature = FieldDefaults.signature
  /\ algorythm = FieldDefaults.algorythm
  /\ saltLength = FieldDefaults.saltLength
  /\ hashLength = FieldDefaults.hashLength
  /\ buffLength = FieldDefaults.buffLength
  /\ iterations = FieldDefaults.iterations
  /\ last = NoCall
  /\ issued = {}

ConstructFrom(inputs) ==
  /\ pc = "new"
  /\ \E o \in inputs :
       LET c == Constructor(o)
       IN /\ options' = o
          /\ ctorError' = c.message
          /\ pc' = IF c.message = NoError THEN "ready" ELSE "failed"
          /\ signature' = c.this.signature
          /\ algorythm' = c.this.algorythm
          /\ saltLength' = c.this.saltLength
          /\ hashLength' = c.this.hashLength
          /\ buffLength' = c.this.buffLength
          /\ iterations' = c.this.iterations
  /\ UNCHANGED <<last, issued>>

Construct == ConstructFrom(OptionInputs)

ConstructAny == ConstructFrom(AllOptionInputs)

Generate ==
  /\ pc = "ready"
  /\ Cardinality(issued) < MaxIssued
  /\ \E value \in Values, rng \in Rngs, kdf \in Kdfs(This) :
       LET out == generate(This, value, rng, kdf)
       IN /\ last' = [op |-> "generate", value |-> value, hash |-> <<>>, out |-> out]
          /\ issued' = IF out.threw THEN issued
                       ELSE issued \cup {[value |-> value, salt |-> out.salt,
                                          hash |-> out.retStr]}
  /\ UNCHANGED <<pc, options, ctorError, fields>>

Validate ==
  /\ pc = "ready"
  /\ \E hash \in HashInputs(This), value \in Values, kdf \in Kdfs(This) :
       last' = [op |-> "validate", value |-> value, hash |-> hash,
                out |-> validate(This, value, hash, kdf)]
  /\ UNCHANGED <<pc, options, ctorError, fields, issued>>

Next == Construct \/ Generate \/ Validate

Spec == Init /\ [][Next]_vars

\* The constructor alone, on every combination of option values.
NextConfig == ConstructAny

SpecConfig == Init /\ [][NextConfig]_vars

\* -------------------------------------------------------------- properties

IsGenerate == pc = "ready" /\ last.op = "generate"
IsValidate == pc = "ready" /\ last.op = "validate"

\* The latest call was validate(value, hash) on a hash generate(value) returned.
ValidatesIssued == IsValidate /\ \E i \in issued : i.value = last.value /\ i.hash = last.hash

EvenLengths == buffLength % 2 = 0 /\ saltLength % 2 = 0

\* C1: for every accepted configuration and every non-empty value, generate(value)
\* returns a string and validate(value, that string) returns true, whenever the
\* random source and the key derivation function themselves do not fail.
C1_RoundTrip ==
  /\ (IsGenerate /\ last.value # <<>> /\ last.out.inner # CollaboratorFailure)
       => ~last.out.threw
  /\ (ValidatesIssued /\ last.value # <<>> /\ last.out.inner # CollaboratorFailure)
       => (~last.out.threw /\ last.out.retBool)

\* C2: every string generate returns has hashLength characters: the signature, then
\* buffLength characters that are the derived key in hex, then saltLength characters
\* that are the hex of the salt drawn for the call.
C2_GeneratedLayout ==
  (IsGenerate /\ ~last.out.threw) =>
    LET r == last.out.retStr
        n == Len(signature)
        key == DerivedKey(last.value, last.out.salt, iterations, buffLength \div 2,
                          algorythm)
    IN /\ Len(r) = hashLength
       /\ SubSeq(r, 1, n) = signature
       /\ SubSeq(r, n + 1, n + buffLength) = ToHex(key)
       /\ SubSeq(r, n + buffLength + 1, Len(r)) = ToHex(last.out.salt)
       /\ Len(ToHex(last.out.salt)) = saltLength

\* C3: validate never raises because of its hash argument: whenever the key
\* derivation function did not fail, validate returns a boolean, and it returns
\* false when the decoded expected buffer and the re-derived one differ in length.
C3_ValidateNeverRaises ==
  (IsValidate /\ last.out.kdf # Threw) =>
    /\ ~last.out.threw
    /\ (Len(FromHex(Substring(last.hash, Len(signature), hashLength - saltLength)))
          # buffLength \div 2 => ~last.out.retBool)

\* The values the constructor was given, each absent one replaced by the field's
\* initial value.
Supplied(o) ==
  [signature |-> IF o.signature.present THEN Trim(o.signature.val)
                 ELSE FieldDefaults.signature,
   algorythm |-> IF o.algorythm.present THEN o.algorythm.val ELSE FieldDefaults.algorythm,
   saltLength |-> IF o.saltLength.present THEN o.saltLength.val
                  ELSE FieldDefaults.saltLength,
   hashLength |-> IF o.hashLength.present THEN o.hashLength.val
                  ELSE FieldDefaults.hashLength,
   buffLength |-> FieldDefaults.buffLength,
   iterations |-> IF o.iterations.present THEN o.iterations.val
                  ELSE FieldDefaults.iterations]

\* The documented checks, applied to the supplied values in the documented order.
ClaimedViolation(this) ==
  IF this.saltLength <= 0 THEN SaltLengthInvalid
  ELSE IF this.hashLength <= 0 THEN HashLengthInvalid
  ELSE IF this.iterations < 1000 THEN IterationsTooLow
  ELSE IF this.hashLength < 2 * this.saltLength THEN SaltExceedsHalfOfHash
  ELSE IF 2 * this.hashLength < 3 * (this.saltLength + Len(this.signature))
  THEN SaltPlusSignatureExceedsTwoThirds
  ELSE NoError

\* C4: construction fails exactly when a supplied value violates a check, with the
\* error of the first violated check in the order saltLength > 0, hashLength > 0,
\* iterations >= 1000, hashLength/2 >= saltLength,
\* (hashLength*2)/3 >= saltLength + len(signature).
C4_FirstViolatedCheck ==
  pc # "new" => ctorError = ClaimedViolation(Supplied(options))

\* C5: a constructed hasher holds, for each absent option, the default
\* signature "", algorithm sha512, saltLength 32, hashLength 128, iterations 100000,
\* and for each supplied option its value (the signature trimmed).
C5_Defaults ==
  pc = "ready" =>
    /\ signature = IF options.signature.present THEN Trim(options.signature.val) ELSE <<>>
    /\ algorythm = IF options.algorythm.present THEN options.algorythm.val ELSE "sha512"
    /\ saltLength = IF options.saltLength.present THEN options.saltLength.val ELSE 32
    /\ hashLength = IF options.hashLength.present THEN options.hashLength.val ELSE 128
    /\ iterations = IF options.iterations.present THEN options.iterations.val ELSE 100000

OtherValueCase ==
  /\ IsValidate /\ EvenLengths
  /\ last.value # <<>>
  /\ \E i \in issued : i.hash = last.hash /\ i.value # <<>> /\ i.value # last.value
  /\ last.out.kdf # Threw

\* C7: with even derived and salt lengths, validate(value2, generate(value1)) returns
\* false for distinct non-empty value1 and value2.
C7_OtherValueRejected ==
  OtherValueCase => (~last.out.threw /\ ~last.out.retBool)

C7_Witness == OtherValueCase /\ last.out.kdf = Returned /\ ~last.out.retBool

\* C8: a failure of the random source makes generate throw the salt error wrapping
\* the cause without calling the key derivation function; a failure of the key
\* derivation function makes generate, and validate, throw the hash error
\* wrapping the cause instead of returning a string or a boolean.
C8_FailuresSurface ==
  /\ (IsGenerate /\ last.out.rng = Threw) =>
       /\ last.out.threw /\ last.out.errorType = "StringHashError"
       /\ last.out.message = SaltError /\ last.out.inner = CollaboratorFailure
       /\ last.out.kdf = NotCalled /\ last.out.retStr = <<>>
  /\ ((IsGenerate \/ IsValidate) /\ last.out.kdf = Threw) =>
       /\ last.out.threw /\ last.out.errorType = "StringHashError"
       /\ last.out.message = HashError
       /\ last.out.inner \in {CollaboratorFailure, OutOfRange}
       /\ last.out.retStr = <<>> /\ ~last.out.retBool
  /\ \A i \in issued : i.hash # <<>>

\* validate(value, generate(value)) with the key derivation function failing: the
\* error is thrown where true would have been returned.
C8_Witness ==
  /\ ValidatesIssued /\ EvenLengths /\ last.value # <<>>
  /\ last.out.kdf = Threw /\ last.out.threw
  /\ last.out.message = HashError /\ last.out.inner = CollaboratorFailure

\* One of the three checks of validate fails on the latest call's arguments.
RejectCase ==
  \/ last.value = <<>>
  \/ Len(last.hash) # hashLength
  \/ SubSeq(last.hash, 1, Len(signature)) # signature

\* C9: validate returns false without calling the key derivation function when the
\* value is empty, the hash has not hashLength characters or its first
\* len(signature) characters are not the signature; the key derivation function is
\* called only when all three checks pass.
C9_FastReject ==
  IsValidate =>
    /\ RejectCase =>
         (~last.out.threw /\ ~last.out.retBool /\ last.out.kdf = NotCalled)
    /\ last.out.kdf # NotCalled => ~RejectCase

\* A hash of the right length whose first character is not the signature's, with a
\* non-empty value.
C9_Witness ==
  /\ IsValidate /\ last.value # <<>> /\ Len(last.hash) = hashLength
  /\ Len(signature) > 0 /\ last.hash[1] = "#"
  /\ last.out.kdf = NotCalled /\ ~last.out.retBool

\* C10: after any calls the six fields are what the constructor left; two strings
\* generate returned for one value with different salts differ; and validate
\* returns true on every string generate returned for the value.
C10_ImmutableAndRevalidates ==
  pc = "ready" =>
    /\ This = Constructor(options).this
    /\ \A i, j \in issued : (i.value = j.value /\ i.salt # j.salt) => i.hash # j.hash
    /\ (ValidatesIssued /\ last.value # <<>> /\ last.out.inner # CollaboratorFailure)
         => (~last.out.threw /\ last.out.retBool)

====
